---- MODULE Spec2Model ----
(***************************************************************************)
(* Model of agents/devbox/scripts/slack-cli.py: one run of the CLI, from   *)
(* argument parsing to process exit.                                       *)
(*                                                                         *)
(* Strings and byte strings are sequences of tokens.  A token stands for a *)
(* character or for a fixed piece of text ("CRLF" for \r\n, DELIM for the  *)
(* text "--" followed by the boundary).  Python's None is the value None,  *)
(* a local variable that is not bound yet has the value Omitted.           *)
(***************************************************************************)
EXTENDS Integers, Sequences, FiniteSets, TLC

VARIABLES pc,        \* position of the run in the script
          command,   \* the subcommand chosen by the dispatcher
          args,      \* the parsed arguments
          token,     \* local `token` of get_token
          stdin,     \* the content of standard input, once it has been read
          text,      \* local `text` of cmd_send
          payload,   \* local `payload` of cmd_send
          fileExists,   \* whether args.file exists on the local filesystem
          file_content, \* local `file_content` of cmd_upload
          body,      \* local `body` of cmd_upload
          requests,  \* the requests handed to urlopen, in order
          response,  \* what urlopen answered
          stdout,    \* lines printed to standard output
          stderr,    \* lines printed to standard error
          exitCode,  \* -1 while the process runs, then its exit status
          io         \* the reads of the environment the run has made, in order

vars == <<pc, command, args, token, stdin, text, payload, fileExists,
          file_content, body, requests, response, stdout, stderr, exitCode, io>>

\* ---------------------------------------------------------------- bounds
MaxBlocksLen == 3
MaxFieldLen == 2

\* ------------------------------------------------------------ Python values
None == <<"None">>
Omitted == <<"Omitted">>

Truthy(v) == v # None /\ v # <<>>

SeqsUpTo(S, n) == UNION {[1..k -> S] : k \in 0..n}

RECURSIVE Flatten(_)
Flatten(lines) ==
    IF lines = <<>> THEN <<>> ELSE Head(lines) \o Flatten(Tail(lines))

\* ------------------------------------------------------------------- JSON
JsonTokens == {"[", "]", ",", "1", "NaN"}

RECURSIVE ScanValue(_, _, _)
RECURSIVE ScanElems(_, _, _)
\* Index after the JSON value that starts at s[i], 0 when there is none.
\* nan: whether the literal NaN is taken as a number.
ScanValue(s, i, nan) ==
    IF i > Len(s) THEN 0
    ELSE IF s[i] = "1" THEN i + 1
    ELSE IF s[i] = "NaN" THEN (IF nan THEN i + 1 ELSE 0)
    ELSE IF s[i] = "["
         THEN IF i + 1 <= Len(s) /\ s[i + 1] = "]" THEN i + 2
              ELSE ScanElems(s, i + 1, nan)
    ELSE 0
ScanElems(s, i, nan) ==
    LET j == ScanValue(s, i, nan) IN
    IF j = 0 \/ j > Len(s) THEN 0
    ELSE IF s[j] = "]" THEN j + 1
    ELSE IF s[j] = "," THEN ScanElems(s, j + 1, nan)
    ELSE 0

\* json.loads: the decoder of the standard library takes NaN as a number.
json_loads(s) ==
    IF ScanValue(s, 1, TRUE) = Len(s) + 1
    THEN [ok |-> TRUE, value |-> s]
    ELSE [ok |-> FALSE, value |-> None]

\* Valid JSON text of RFC 8259: no NaN literal.
IsValidJson(s) == ScanValue(s, 1, FALSE) = Len(s) + 1

\* ------------------------------------------------------------ diagnostics
MissingCredential == <<"Error: SLACK_BOT_TOKEN environment variable is not set.">>
MissingContent == <<"Error: No text provided. Use --text or pipe via stdin.">>
InvalidBlocksJson == <<"Error: Invalid JSON provided for --blocks">>
FileNotFound(path) == <<"Error: File not found: ">> \o path
ApiError(error) == <<"Slack API Error: ", error>>
HttpErrorStatus(code, reason) == <<"HTTP Error: ", code, " ", reason>>
TransportError(cause) == <<"Error: ">> \o cause
UploadError(cause) == <<"Upload Error: ">> \o cause
Traceback(cause) == <<"Traceback (most recent call last):">> \o cause

\* Whether the piece of text x was written to standard error.
OnStderr(x) == \E i \in 1..Len(stderr) : \E j \in 1..Len(stderr[i]) : stderr[i][j] = x

\* sys.exit(1) after print(..., file=sys.stderr); lines is what was printed.
Fail(lines) ==
    /\ stderr' = stderr \o lines
    /\ exitCode' = 1
    /\ pc' = "exited"

\* Normal return of main(): the interpreter exits with status 0.
Succeed ==
    /\ exitCode' = 0
    /\ pc' = "exited"

\* ------------------------------------------------------- answers of urlopen
Answer(kind, code, reason, raw, json, ok, error, file, permalink) ==
    [kind |-> kind, code |-> code, reason |-> reason, body |-> raw, json |-> json,
     ok |-> ok, error |-> error, file |-> file, permalink |-> permalink]
Envelope(ok, error, file, permalink) ==
    Answer("reply", "200", "OK", "", "object", ok, error, file, permalink)

NoResponse == Answer("none", "", "", "", "", "", "", "", "")

Responses ==
    { Answer("URLError", "", "", "", "", "", "", "", ""),
      Answer("HTTPError", "500", "Internal Server Error", "RAWBODY", "", "", "", "", ""),
      Answer("reply", "200", "OK", "", "notjson", "", "", "", ""),
      Answer("reply", "200", "OK", "", "array", "", "", "", ""),
      Envelope("true", "absent", "absent", "absent"),
      Envelope("true", "absent", "object", "https://x/y"),
      Envelope("true", "absent", "object", "absent"),
      Envelope("true", "absent", "null", "absent"),
      Envelope("false", "channel_not_found", "absent", "absent"),
      Envelope("false", "absent", "absent", "absent"),
      Envelope("absent", "absent", "absent", "absent") }

\* resp_json.get(key) printed in an f-string: a missing key prints as None.
GetStr(v) == IF v = "absent" THEN "None" ELSE v

\* not resp_json.get("ok")
NotOk_AbsentIsOk(r) == r.ok = "false"
NotOk(r) == r.ok # "true"

\* str(e) of the exception that urlopen, decode, json.loads or .get raises
Cause(r) ==
    IF r.kind = "URLError" THEN <<"<urlopen error>">>
    ELSE IF r.kind = "HTTPError" THEN <<"HTTP Error ", r.code, ": ", r.reason>>
    ELSE IF r.json = "notjson" THEN <<"Expecting value">>
    ELSE IF r.json = "array" THEN <<"'list' object has no attribute 'get'">>
    ELSE <<"'NoneType' object has no attribute 'get'">>

\* ------------------------------------------------------------------ inputs
EnvTokens == {None, <<>>, <<"xoxb">>}
Channels == {<<>>, <<"C", "1">>}
Texts == {None, <<>>, <<"h", "i">>}
ThreadTs == {None, <<>>, <<"1", ".", "5">>}
BlocksValues == {None} \cup SeqsUpTo(JsonTokens, MaxBlocksLen)
StdinData == {<<>>, <<"a">>, <<" ", "a", "\n">>}

SendArgs ==
    [channel : Channels, text : Texts, blocks : BlocksValues, thread_ts : ThreadTs,
     file : {None}, comment : {None}]

\* ---------------------------------------------------- multipart/form-data
CRLF == "\r\n"
QUOTE == "\""
boundary == "----SlackCLIFormBoundary"
\* f'--{boundary}'
DashBoundary == "------SlackCLIFormBoundary"

FieldAlphabet == {"a", CRLF, DashBoundary}
Comments == {None, <<>>, <<"a">>, <<"a", CRLF, "a">>, <<CRLF, DashBoundary>>}
FileContents == SeqsUpTo(FieldAlphabet, MaxFieldLen)
Paths == {<<>>, <<"r", ".txt">>, <<"d", "/", "r", ".txt">>, <<"q", QUOTE, "b">>, <<"d", "/">>}

UploadArgs ==
    [channel : Channels, text : {None}, blocks : {None}, thread_ts : ThreadTs,
     file : Paths, comment : Comments]

\* os.path.basename
RECURSIVE basename(_)
basename(path) ==
    IF \A i \in 1..Len(path) : path[i] # "/" THEN path ELSE basename(Tail(path))

\* mimetypes.guess_type(filename)[0] or 'application/octet-stream'
mime_type(filename) ==
    IF Len(filename) >= 2 /\ filename[Len(filename)] = ".txt"
    THEN "text/plain" ELSE "application/octet-stream"

FieldHeader(name) == <<"Content-Disposition: form-data; name=", name>>
FileHeader == "Content-Disposition: form-data; name=\"file\"; filename=\""
ContentTypeHeader == "Content-Type: "

\* the lines that cmd_upload appends to `data` for one form field
FieldLines(name, value) == << <<DashBoundary>>, FieldHeader(name), <<>>, value >>

\* the list `data` of cmd_upload
DataLines(a, filename) ==
    FieldLines("channels", a.channel)
    \o (IF Truthy(a.thread_ts) THEN FieldLines("thread_ts", a.thread_ts) ELSE <<>>)
    \o (IF Truthy(a.comment) THEN FieldLines("initial_comment", a.comment) ELSE <<>>)
    \o << <<DashBoundary>>,
          <<FileHeader>> \o filename \o <<QUOTE>>,
          <<ContentTypeHeader, mime_type(filename)>>,
          <<>> >>

\* the bytes `body` of cmd_upload
MultipartBody(a, filename, content) ==
    LET data == DataLines(a, filename) IN
    Flatten([i \in 1..Len(data) |-> data[i] \o <<CRLF>>])
    \o content \o <<CRLF>>
    \o <<DashBoundary, "--">> \o <<CRLF>>

\* ------------------------------------------------------------------- state
Init ==
    /\ pc = "main"
    /\ command = "none"
    /\ args = [channel |-> None, text |-> None, blocks |-> None, thread_ts |-> None,
               file |-> None, comment |-> None]
    /\ token = Omitted
    /\ stdin = Omitted
    /\ text = Omitted
    /\ payload = <<>>
    /\ fileExists = FALSE
    /\ file_content = Omitted
    /\ body = Omitted
    /\ requests = <<>>
    /\ response = NoResponse
    /\ stdout = <<>>
    /\ stderr = <<>>
    /\ exitCode = -1
    /\ io = <<>>

\* main(): argparse accepted the command line and dispatches to args.func.
main_send ==
    /\ pc = "main"
    /\ \E a \in SendArgs : args' = a
    /\ command' = "send"
    /\ pc' = "get_token"
    /\ UNCHANGED <<token, stdin, text, payload, fileExists, file_content, body,
                   requests, response, stdout, stderr, exitCode, io>>

main_upload ==
    /\ pc = "main"
    /\ \E a \in UploadArgs : args' = a
    /\ \E exists \in BOOLEAN :
         /\ args'.file = <<>> => ~exists
         /\ fileExists' = exists
    /\ command' = "upload"
    /\ pc' = "get_token"
    /\ UNCHANGED <<token, stdin, text, payload, file_content, body,
                   requests, response, stdout, stderr, exitCode, io>>

\* get_token()
TokenMissing_NoneOnly(tok) == tok = None
TokenMissing(tok) == ~Truthy(tok)

get_token ==
    /\ pc = "get_token"
    /\ \E tok \in EnvTokens :
         /\ token' = tok
         /\ io' = Append(io, "environ")
         /\ IF TokenMissing(tok)
            THEN Fail(<<MissingCredential>>)
            ELSE /\ pc' = IF command = "send" THEN "read_text" ELSE "check_file"
                 /\ UNCHANGED <<stderr, exitCode>>
    /\ UNCHANGED <<command, args, stdin, text, payload, fileExists, file_content,
                   body, requests, response, stdout>>

\* str.strip(), which the script does not apply to the piped text
RECURSIVE Strip(_)
IsSpace(c) == c \in {" ", "\n"}
Strip(s) ==
    IF s = <<>> THEN s
    ELSE IF IsSpace(Head(s)) THEN Strip(Tail(s))
    ELSE IF IsSpace(s[Len(s)]) THEN Strip(SubSeq(s, 1, Len(s) - 1))
    ELSE s
StdinRead_Stripped(data) == Strip(data)
\* sys.stdin.read(): the whole of standard input, unchanged
StdinRead(data) == data

\* cmd_send: text from --text or from standard input
read_text ==
    /\ pc = "read_text"
    /\ IF Truthy(args.text)
       THEN /\ text' = args.text
            /\ UNCHANGED <<stdin, io>>
       ELSE \E isatty \in BOOLEAN :
              IF isatty
              THEN /\ text' = args.text
                   /\ io' = Append(io, "isatty")
                   /\ UNCHANGED stdin
              ELSE \E data \in StdinData :
                     /\ stdin' = data
                     /\ text' = StdinRead(data)
                     /\ io' = io \o <<"isatty", "stdin.read">>
    /\ pc' = "build_message"
    /\ UNCHANGED <<command, args, token, payload, fileExists, file_content, body,
                   requests, response, stdout, stderr, exitCode>>

\* cmd_send: `if not text and not args.blocks`
NoContent_NoneOnly(t, blocks) == t = None /\ ~Truthy(blocks)
NoContent(t, blocks) == ~Truthy(t) /\ ~Truthy(blocks)

\* cmd_send: the dict `payload`; the arguments have been validated
BuildPayload(channel, t, thread_ts, blocks) ==
    ("channel" :> channel) @@ ("text" :> t)
    @@ (IF Truthy(thread_ts) THEN ("thread_ts" :> thread_ts) ELSE <<>>)
    @@ (IF Truthy(blocks) THEN ("blocks" :> json_loads(blocks).value) ELSE <<>>)

build_message ==
    /\ pc = "build_message"
    /\ IF NoContent(text, args.blocks)
       THEN Fail(<<MissingContent>>) /\ UNCHANGED payload
       ELSE IF Truthy(args.blocks) /\ ~json_loads(args.blocks).ok
       THEN Fail(<<InvalidBlocksJson>>) /\ UNCHANGED payload
       ELSE /\ payload' = BuildPayload(args.channel, text, args.thread_ts, args.blocks)
            /\ pc' = "api_call"
            /\ UNCHANGED <<stderr, exitCode>>
    /\ UNCHANGED <<command, args, token, stdin, text, fileExists, file_content, body,
                   requests, response, stdout, io>>

\* json.dumps(data): None is written as null
JsonNull == <<"null">>
json_dumps(data) == [k \in DOMAIN data |-> IF data[k] = None THEN JsonNull ELSE data[k]]

Request(endpoint, contentType, data) ==
    [endpoint |-> endpoint, authorization |-> <<"Bearer ">> \o token,
     contentType |-> contentType, data |-> data]

\* api_call: the request is built and handed to urlopen
api_call ==
    /\ pc = "api_call"
    /\ requests' = Append(requests, Request("chat.postMessage",
                        <<"application/json; charset=utf-8">>, json_dumps(payload)))
    /\ io' = Append(io, "urlopen")
    /\ pc' = "api_response"
    /\ UNCHANGED <<command, args, token, stdin, text, payload, fileExists,
                   file_content, body, response, stdout, stderr, exitCode>>

\* api_call: what urlopen answers, and the handling of the answer
api_response ==
    /\ pc = "api_response"
    /\ \E r \in Responses :
         /\ response' = r
         /\ IF r.kind = "HTTPError"
            THEN Fail(<<HttpErrorStatus(r.code, r.reason), <<r.body>>>>)
            ELSE IF r.kind = "URLError" \/ r.json # "object"
            THEN Fail(<<TransportError(Cause(r))>>)
            ELSE IF NotOk(r)
            THEN Fail(<<ApiError(GetStr(r.error))>>)
            ELSE Succeed /\ UNCHANGED stderr
    /\ UNCHANGED <<command, args, token, stdin, text, payload, fileExists,
                   file_content, body, requests, stdout, io>>

\* cmd_upload: `if not os.path.exists(args.file)`
FileMissing_Inverted(exists) == exists
FileMissing(exists) == ~exists

check_file ==
    /\ pc = "check_file"
    /\ io' = Append(io, "exists")
    /\ IF FileMissing(fileExists)
       THEN Fail(<<FileNotFound(args.file)>>)
       ELSE /\ pc' = "build_upload"
            /\ UNCHANGED <<stderr, exitCode>>
    /\ UNCHANGED <<command, args, token, stdin, text, payload, fileExists,
                   file_content, body, requests, response, stdout>>

\* cmd_upload: the file is read and the multipart body is built.  open() can
\* raise OSError (a directory, no permission, no such file); nothing catches
\* it, so the interpreter prints a traceback and exits 1.
build_upload ==
    /\ pc = "build_upload"
    /\ \/ /\ io' = Append(io, "open")
          /\ Fail(<<Traceback(<<"OSError">>)>>)
          /\ UNCHANGED <<file_content, body>>
       \/ /\ fileExists
          /\ args.file[Len(args.file)] # "/"
          /\ \E content \in FileContents :
               /\ file_content' = content
               /\ body' = MultipartBody(args, basename(args.file), content)
          /\ io' = io \o <<"open", "read">>
          /\ pc' = "upload_request"
          /\ UNCHANGED <<stderr, exitCode>>
    /\ UNCHANGED <<command, args, token, stdin, text, payload, fileExists,
                   requests, response, stdout>>

\* cmd_upload: the request is built and handed to urlopen
upload_request ==
    /\ pc = "upload_request"
    /\ requests' = Append(requests, Request("files.upload",
                        <<"multipart/form-data; boundary=", boundary>>, body))
    /\ io' = Append(io, "urlopen")
    /\ pc' = "upload_response"
    /\ UNCHANGED <<command, args, token, stdin, text, payload, fileExists,
                   file_content, body, response, stdout, stderr, exitCode>>

\* cmd_upload: what urlopen answers, and the handling of the answer.  Every
\* exception raised inside the try block, HTTPError included, is printed by
\* `except Exception`; sys.exit(1) raises SystemExit, which passes through.
upload_response ==
    /\ pc = "upload_response"
    /\ \E r \in Responses :
         /\ response' = r
         /\ IF r.kind \in {"URLError", "HTTPError"} \/ r.json # "object"
            THEN Fail(<<UploadError(Cause(r))>>) /\ UNCHANGED stdout
            ELSE IF NotOk(r)
            THEN Fail(<<ApiError(GetStr(r.error))>>) /\ UNCHANGED stdout
            ELSE IF r.file = "null"
            THEN Fail(<<UploadError(Cause(r))>>) /\ UNCHANGED stdout
            ELSE /\ stdout' = Append(stdout, <<"File uploaded: ", GetStr(r.permalink)>>)
                 /\ Succeed
                 /\ UNCHANGED stderr
    /\ UNCHANGED <<command, args, token, stdin, text, payload, fileExists,
                   file_content, body, requests, io>>

Next ==
    \/ main_send
    \/ main_upload
    \/ get_token
    \/ read_text
    \/ build_message
    \/ api_call
    \/ api_response
    \/ check_file
    \/ build_upload
    \/ upload_request
    \/ upload_response

Spec == Init /\ [][Next]_vars

\* ------------------------------------------------ reading a multipart body
\* A multipart/form-data parser (RFC 2046, RFC 7578) for the delimiter that
\* the Content-Type header of the request announces: the body starts with a
\* delimiter line, a part is header lines, an empty line and the content, the
\* content ends before the first CRLF that a delimiter follows, and "--"
\* after a delimiter closes the body.  The result is the parts in order, or
\* ok = FALSE for a body that is not of this form.
Part(name, filename, ctype, value) ==
    [name |-> name, filename |-> filename, ctype |-> ctype, value |-> value]
Malformed == [ok |-> FALSE, parts |-> <<>>]

\* the least index from i on where the token (or the delimiter) is, 0 when
\* there is none
RECURSIVE FindCRLF(_, _)
FindCRLF(b, i) ==
    IF i > Len(b) THEN 0 ELSE IF b[i] = CRLF THEN i ELSE FindCRLF(b, i + 1)
RECURSIVE FindDelimiter(_, _)
FindDelimiter(b, i) ==
    IF i + 1 > Len(b) THEN 0
    ELSE IF b[i] = CRLF /\ b[i + 1] = DashBoundary THEN i
    ELSE FindDelimiter(b, i + 1)
RECURSIVE FindQuote(_, _)
FindQuote(line, i) ==
    IF i > Len(line) THEN 0 ELSE IF line[i] = QUOTE THEN i ELSE FindQuote(line, i + 1)

\* the header lines that start at b[i], up to the empty line
RECURSIVE HeaderLines(_, _, _)
HeaderLines(b, i, acc) ==
    LET e == FindCRLF(b, i) IN
    IF e = 0 THEN [ok |-> FALSE, lines |-> acc, next |-> 0]
    ELSE IF e = i THEN [ok |-> TRUE, lines |-> acc, next |-> i + 1]
    ELSE HeaderLines(b, e + 1, Append(acc, SubSeq(b, i, e - 1)))

IsFieldHeader(line) == Len(line) = 2 /\ line[1] = FieldHeader("x")[1]
IsFileHeader(line) == Len(line) >= 2 /\ line[1] = FileHeader /\ FindQuote(line, 2) # 0
IsContentType(line) == Len(line) = 2 /\ line[1] = ContentTypeHeader

HeadersOk(lines) ==
    \/ Len(lines) = 1 /\ IsFieldHeader(lines[1])
    \/ Len(lines) = 2 /\ IsFileHeader(lines[1]) /\ IsContentType(lines[2])

PartOf(lines, value) ==
    IF Len(lines) = 1
    THEN Part(lines[1][2], None, "text/plain", value)
    ELSE Part("file", SubSeq(lines[1], 2, FindQuote(lines[1], 2) - 1), lines[2][2], value)

RECURSIVE AfterDelimiter(_, _, _)
AfterDelimiter(b, i, acc) ==
    IF i > Len(b) THEN Malformed
    ELSE IF b[i] = "--" THEN [ok |-> TRUE, parts |-> acc]
    ELSE IF b[i] # CRLF THEN Malformed
    ELSE LET h == HeaderLines(b, i + 1, <<>>) IN
         IF ~h.ok \/ ~HeadersOk(h.lines) THEN Malformed
         ELSE LET d == FindDelimiter(b, h.next) IN
              IF d = 0 THEN Malformed
              ELSE AfterDelimiter(b, d + 2,
                       Append(acc, PartOf(h.lines, SubSeq(b, h.next, d - 1))))

ParseMultipart(b) ==
    IF Len(b) >= 1 /\ b[1] = DashBoundary THEN AfterDelimiter(b, 2, <<>>) ELSE Malformed

\* what the parser has to give back for the arguments and the file of a run
SuppliedParts(a, content) ==
    <<Part("channels", None, "text/plain", a.channel)>>
    \o (IF Truthy(a.thread_ts)
        THEN <<Part("thread_ts", None, "text/plain", a.thread_ts)>> ELSE <<>>)
    \o (IF Truthy(a.comment)
        THEN <<Part("initial_comment", None, "text/plain", a.comment)>> ELSE <<>>)
    \o <<Part("file", basename(a.file), mime_type(basename(a.file)), content)>>

\* ================================================================ properties
Exited == pc = "exited"
TokenSet == token \notin {Omitted, None, <<>>}
TokenUnset == token \in {None, <<>>}
NoRequest == requests = <<>>
Did(op) == \E i \in 1..Len(io) : io[i] = op
FailedWith(line) == Exited /\ exitCode = 1 /\ stderr = <<line>>

\* C1: a run of send with the token set, neither --text nor --blocks, and no
\* text from standard input (a terminal, or an empty pipe) never issues a
\* request and ends with the MissingContent diagnostic and exit status 1.
C1_Case ==
    /\ command = "send" /\ TokenSet
    /\ args.text = None /\ args.blocks = None
    /\ text \in {None, <<>>}
C1_MissingContent ==
    C1_Case => /\ NoRequest
               /\ pc \in {"build_message", "exited"}
               /\ Exited => FailedWith(MissingContent)
C1_Witness == C1_Case /\ Exited /\ stdin = <<>> /\ Did("stdin.read")

\* C2: a run of send (token set) whose --blocks value is not valid JSON never
\* issues a request and ends with the InvalidBlocksJson diagnostic and exit
\* status 1; the empty string is such a value.
C2_InvalidBlocks ==
    (command = "send" /\ TokenSet /\ args.blocks # None /\ ~IsValidJson(args.blocks))
    => /\ NoRequest
       /\ Exited => FailedWith(InvalidBlocksJson)

\* C3 as stated: a run of upload whose --file path does not exist ends with
\* the FileNotFound diagnostic and exit status 1, with no file read and no
\* request.
C3_Original ==
    (command = "upload" /\ ~fileExists)
    => /\ NoRequest /\ ~Did("open")
       /\ Exited => FailedWith(FileNotFound(args.file))

\* C3 amended: a run of upload with the token set whose --file path does not
\* exist ends with the FileNotFound diagnostic and exit status 1, and neither
\* opens the file nor issues a request.
C3_Case == command = "upload" /\ TokenSet /\ ~fileExists
C3_FileNotFound ==
    C3_Case => /\ NoRequest /\ ~Did("open") /\ file_content = Omitted
               /\ pc \in {"check_file", "exited"}
               /\ Exited => FailedWith(FileNotFound(args.file))
C3_Witness == C3_Case /\ Exited /\ Did("exists") /\ args.file = <<"r", ".txt">>

\* C4: the body of every files.upload request, read by a multipart parser
\* for the announced boundary, gives back exactly the supplied channels,
\* thread_ts, initial_comment and file (name, content type, bytes).
C4_RoundTrip ==
    \A i \in 1..Len(requests) :
        requests[i].endpoint = "files.upload"
        => ParseMultipart(requests[i].data)
           = [ok |-> TRUE, parts |-> SuppliedParts(args, file_content)]

\* C5: when the answer is a decoded envelope whose ok is not true, the run
\* exits non-zero, the envelope's error string is on standard error and
\* nothing is printed to standard output; a run exits 0 only when the answer
\* is an envelope with ok true.
C5_Case == response.kind = "reply" /\ response.json = "object" /\ response.ok # "true"
C5_ApiError ==
    /\ C5_Case => /\ Exited /\ exitCode = 1
                  /\ stderr = <<ApiError(GetStr(response.error))>>
                  /\ response.error # "absent" => OnStderr(response.error)
                  /\ stdout = <<>>
    /\ exitCode = 0 => response.json = "object" /\ response.ok = "true"
C5_Witness ==
    C5_Case /\ command = "upload" /\ response.error = "channel_not_found" /\ exitCode = 1

\* C6: when the server answers a request with an HTTP error status, the run
\* exits non-zero and the status code, the reason and the raw response body
\* are all on standard error.
C6_HttpError ==
    response.kind = "HTTPError"
    => /\ Exited /\ exitCode # 0
       /\ OnStderr(response.code) /\ OnStderr(response.reason)
       /\ OnStderr(response.body)

\* C7: a run of send (token set, --blocks absent or valid JSON) with --text
\* absent or empty and a non-empty pipe on standard input issues exactly one
\* chat.postMessage request, whose text is the piped content unchanged; with
\* a non-empty --text, standard input is not read and the text of the request
\* is the --text value.
C7_PipedCase ==
    /\ command = "send" /\ TokenSet
    /\ ~Truthy(args.text)
    /\ stdin \notin {Omitted, <<>>}
    /\ args.blocks = None \/ IsValidJson(args.blocks)
C7_PipedText ==
    /\ C7_PipedCase
       => /\ Len(requests) <= 1
          /\ \A i \in 1..Len(requests) :
                /\ requests[i].endpoint = "chat.postMessage"
                /\ requests[i].data.text = stdin
          /\ Exited => Len(requests) = 1
    /\ (command = "send" /\ Truthy(args.text))
       => /\ stdin = Omitted /\ ~Did("stdin.read")
          /\ \A i \in 1..Len(requests) : requests[i].data.text = args.text
C7_Witness ==
    C7_PipedCase /\ Exited /\ exitCode = 0 /\ stdin = <<" ", "a", "\n">>
    /\ args.text = <<>>

\* C8: a run that has ended has exit status 0 exactly when it sent one request
\* and the answer was an envelope with ok true; otherwise its exit status is 1
\* and standard error is not empty; no run issues more than one request.
C8_ExitCode ==
    /\ Len(requests) <= 1
    /\ Exited
       => /\ exitCode = 0 <=> /\ Len(requests) = 1
                              /\ response.kind = "reply" /\ response.json = "object"
                              /\ response.ok = "true"
          /\ exitCode # 0 => exitCode = 1 /\ stderr # <<>>

\* C9: when SLACK_BOT_TOKEN is unset or empty the run ends with the
\* MissingCredential diagnostic and exit status 1, and reading the
\* environment is the only thing it has done: standard input is not read, the
\* file is neither checked nor read, no request is issued.
C9_MissingCredential ==
    TokenUnset => /\ FailedWith(MissingCredential)
                  /\ io = <<"environ">>
                  /\ stdin = Omitted /\ file_content = Omitted
                  /\ NoRequest
C9_Witness == TokenUnset /\ token = <<>> /\ command = "upload" /\ ~fileExists /\ Exited

\* C10: the JSON object of every chat.postMessage request has channel, has
\* thread_ts exactly when --thread-ts was given (non-empty), has blocks
\* (the parsed --blocks) exactly when --blocks was given (non-empty), has no
\* member that is null, and has a non-empty text or blocks.
C10_Payload ==
    \A i \in 1..Len(requests) :
        requests[i].endpoint = "chat.postMessage"
        => LET data == requests[i].data IN
           /\ "channel" \in DOMAIN data /\ data.channel = args.channel
           /\ "thread_ts" \in DOMAIN data <=> Truthy(args.thread_ts)
           /\ "blocks" \in DOMAIN data <=> Truthy(args.blocks)
           /\ \A k \in DOMAIN data : data[k] # JsonNull
           /\ \/ "text" \in DOMAIN data /\ data.text # <<>>
              \/ "blocks" \in DOMAIN data

====
